---- MODULE Spec2Model ----
(***************************************************************************)
(* A model of little_pger (src/little_pger.py): the where-clause compiler, *)
(* the statement builders (select, select1, select_id, insert, update,     *)
(* upsert, delete, count, exists), the session object (construction,       *)
(* scope entry and exit, commit, rollback) and the connection and table    *)
(* they act on.                                                            *)
(*                                                                         *)
(* SQL text is a sequence of tokens; a placeholder is the token "%s".      *)
(* A Python dict is the sequence of its (key, value) pairs in traversal    *)
(* order; a Python set is the sequence of its members in traversal order.  *)
(* The database holds one table, "t", with a serial primary key "id" and a *)
(* nullable column "name".                                                 *)
(***************************************************************************)
EXTENDS Integers, Sequences, FiniteSets, TLC

\* Bounds of the model.
MaxId == 2          \* primary-key values are 0..MaxId, the sequence stops after MaxId
MaxSessions == 3    \* session objects that are ever constructed

\* Python's None / SQL NULL, as an integer no column value takes.
Null == -1

VARIABLES
    banner,        \* numeric components of the server's "PostgreSQL x.y[.z]" banner
    sessions,      \* the LittlePGer objects constructed so far, all on the one connection
    db,            \* rows of table t as the connection's open transaction sees them
    durable,       \* rows of table t as last committed
    seq,           \* next value of t's primary-key sequence (never rolled back)
    failed,        \* the connection's transaction is aborted by a database error
    last,          \* the last call: verb, session, options, error, result, statement
    dirty,         \* sessions with changes pending in the open transaction
    caller         \* what the caller holds: where and where_or maps, extra options

vars == <<banner, sessions, db, durable, seq, failed, last, dirty, caller>>

--------------------------------------------------------------------------
\* Python values and containers

\* bool(v) for an integer-or-None value
Truthy(v) == v # Null /\ v # 0

\* a filter value: a scalar, a tuple, a list, a set of members, or a string
Sc(n) == [kind |-> "scalar", items |-> <<n>>, elems |-> <<>>, sql |-> ""]
Tup(s) == [kind |-> "tuple", items |-> s, elems |-> <<>>, sql |-> ""]
Lst(s) == [kind |-> "list", items |-> s, elems |-> <<>>, sql |-> ""]
SetOf(ms) == [kind |-> "set", items |-> <<>>, elems |-> ms, sql |-> ""]
Str(x) == [kind |-> "str", items |-> <<>>, elems |-> <<>>, sql |-> x]

\* a filter key: a plain column name, a (column, op) pair or a (column, op, fn) triple
Col(c) == [arity |-> 1, col |-> c, op |-> "", fn |-> ""]
ColOp(c, o) == [arity |-> 2, col |-> c, op |-> o, fn |-> ""]
ColOpFn(c, o, f) == [arity |-> 3, col |-> c, op |-> o, fn |-> f]

\* dict helpers: a dict is a sequence of <<key, value>> pairs with distinct keys
RECURSIVE Concat(_)
Concat(ss) == IF ss = <<>> THEN <<>> ELSE Head(ss) \o Concat(Tail(ss))

RECURSIVE Join(_, _)
Join(ss, sep) ==
    IF ss = <<>> THEN <<>>
    ELSE IF Len(ss) = 1 THEN ss[1]
    ELSE ss[1] \o <<sep>> \o Join(Tail(ss), sep)

Keys(d) == [i \in 1..Len(d) |-> d[i][1]]
Values(d) == [i \in 1..Len(d) |-> d[i][2]]
HasKey(d, k) == \E i \in 1..Len(d) : d[i][1] = k
Lookup(d, k) == d[CHOOSE i \in 1..Len(d) : d[i][1] = k][2]
DictPop(d, k) == SelectSeq(d, LAMBDA e : e[1] # k)
Range(s) == {s[i] : i \in 1..Len(s)}

\* keyword arguments are a function from option names to values
Get(kw, k, dflt) == IF k \in DOMAIN kw THEN kw[k] ELSE dflt
Pop(kw, ks) == [k \in (DOMAIN kw) \ ks |-> kw[k]]
NoKw == [k \in {} |-> 0]

--------------------------------------------------------------------------
\* Helper functions

_flatten(values) ==
    Concat([i \in 1..Len(values) |->
        IF values[i].kind = "set" THEN values[i].elems ELSE <<values[i]>>])

\* _get_where_clause_comp_item with `in` for every non-set sequence
_get_where_clause_comp_item_seq_in(c, v) ==
    IF c.arity = 2 THEN << <<c.col>>, c.op, <<"%s">> >>
    ELSE IF c.arity = 3 THEN << <<c.fn, "(", c.col, ")">>, c.op, <<c.fn, "(", "%s", ")">> >>
    ELSE IF v.kind \in {"tuple", "list"} THEN << <<c.col>>, "in", <<"%s">> >>
    ELSE << <<c.col>>, "=", <<"%s">> >>

\* the triple (field, comp_operator, value placeholder), each part as tokens
_get_where_clause_comp_item(c, v) ==
    IF c.arity = 2 THEN << <<c.col>>, c.op, <<"%s">> >>
    ELSE IF c.arity = 3 THEN << <<c.fn, "(", c.col, ")">>, c.op, <<c.fn, "(", "%s", ")">> >>
    ELSE IF v.kind = "tuple" THEN << <<c.col>>, "in", <<"%s">> >>
    ELSE << <<c.col>>, "=", <<"%s">> >>

\* '%s %s %s' % _get_where_clause_comp_item(c, v)
CompFragment(c, v) ==
    LET t == _get_where_clause_comp_item(c, v) IN t[1] \o <<t[2]>> \o t[3]

ExistsKey == Col("exists")

\* one element of wc in _get_where_clause
WhereItem(c, v) ==
    IF c = ExistsKey THEN <<"exists", "(", v.sql, ")">>
    ELSE IF v.kind = "set"
    THEN <<"(">> \o Join([i \in 1..Len(v.elems) |-> CompFragment(c, v.elems[i])], "and")
         \o <<")">>
    ELSE CompFragment(c, v)

\* the assert of _get_where_clause on an exists entry
WhereAssertFails(items) ==
    \E i \in 1..Len(items) : items[i][1] = ExistsKey /\ items[i][2].kind # "str"

_get_where_clause(items, type_) ==
    Join([i \in 1..Len(items) |-> WhereItem(items[i][1], items[i][2])], type_)

_check_args_accepting(args, allowed_args) == TRUE

\* TRUE when the call passes, FALSE when it raises TypeError
_check_args(args, allowed_args) == args \subseteq allowed_args

--------------------------------------------------------------------------
\* The database behind the connection: table t (id serial primary key, name)

Ids == 0..MaxId
Columns == <<"id", "name">>
Known(col) == col \in Range(Columns)
TableInfos == [pkey |-> "id", columns |-> Columns]

Row(i, n) == [id |-> i, name |-> n, count |-> Null]
CountRow(n) == [id |-> Null, name |-> Null, count |-> n]
ColVal(row, col) == IF col = "id" THEN row.id ELSE row.name

RECURSIVE ById(_)
ById(S) ==
    IF S = {} THEN <<>>
    ELSE LET r == CHOOSE x \in S : \A y \in S : x.id <= y.id
         IN <<r>> \o ById(S \ {r})

\* the SQL function sign()
Sign(x) == IF x = Null THEN Null ELSE IF x > 0 THEN 1 ELSE 0
ApplyFn(c, x) == IF c.arity = 3 THEN Sign(x) ELSE x

\* the raw subqueries used under the exists key
ExistsTrue(sql) == sql = "select 1"

\* one comparison `field op placeholder` with the placeholder bound to v:
\* does the server reject it, and does it hold of a row
CompError(c, v) ==
    LET op == _get_where_clause_comp_item(c, v)[2] IN
    \/ ~Known(c.col)
    \/ v.kind \in {"list", "str", "set"}
    \/ v.kind = "tuple" /\ (op # "in" \/ v.items = <<>>)
    \/ v.kind = "scalar" /\ op = "in"

CompHolds(row, c, v) ==
    LET op == _get_where_clause_comp_item(c, v)[2]
        x == ApplyFn(c, ColVal(row, c.col))
    IN  IF op = "in" THEN x # Null /\ x \in Range(v.items)
        ELSE LET y == ApplyFn(c, v.items[1]) IN
             IF op = "=" /\ c.arity < 3 /\ y = Null THEN x = Null   \* transform_null_equals
             ELSE IF x = Null \/ y = Null THEN FALSE
             ELSE IF op = "=" THEN x = y
             ELSE IF op = "<" THEN x < y
             ELSE IF op = ">" THEN x > y
             ELSE FALSE

EntryError(c, v) ==
    IF c = ExistsKey THEN FALSE
    ELSE IF v.kind = "set"
    THEN v.elems = <<>> \/ \E i \in 1..Len(v.elems) : CompError(c, v.elems[i])
    ELSE CompError(c, v)

EntryHolds(row, c, v) ==
    IF c = ExistsKey THEN ExistsTrue(v.sql)
    ELSE IF v.kind = "set" THEN \A i \in 1..Len(v.elems) : CompHolds(row, c, v.elems[i])
    ELSE CompHolds(row, c, v)

WhereError(where, where_or) ==
    \/ \E i \in 1..Len(where) : EntryError(where[i][1], where[i][2])
    \/ \E i \in 1..Len(where_or) : EntryError(where_or[i][1], where_or[i][2])

RowMatches(row, where, where_or) ==
    /\ \A i \in 1..Len(where) : EntryHolds(row, where[i][1], where[i][2])
    /\ where_or = <<>> \/ \E i \in 1..Len(where_or) : EntryHolds(row, where_or[i][1], where_or[i][2])

Matching(rows, where, where_or) == {r \in rows : RowMatches(r, where, where_or)}

\* the outcome of one statement: rows of the table, the sequence, whether the
\* server raised, the result set, and whether the model's bound was reached
DbOut(d, s, e, rs) == [db |-> d, seq |-> s, err |-> e, rows |-> rs, bound |-> FALSE]
DbBound(d, s) == [db |-> d, seq |-> s, err |-> FALSE, rows |-> <<>>, bound |-> TRUE]

Paged(rs, limit, offset) ==
    LET from == IF offset = Null THEN 1 ELSE offset + 1
        rest == IF from > Len(rs) THEN <<>> ELSE SubSeq(rs, from, Len(rs))
    IN  IF limit = Null \/ limit >= Len(rest) THEN rest ELSE SubSeq(rest, 1, limit)

DbSelect(d, s, st) ==
    IF WhereError(st.where, st.where_or) THEN DbOut(d, s, TRUE, <<>>)
    ELSE LET m == Matching(d, st.where, st.where_or)
             grouped == st.group_by # ""
             gvals == {ColVal(r, st.group_by) : r \in m}
             bad == \/ ~(st.what \in {"*", "count(*)"} \/ Known(st.what))
                    \/ grouped /\ (~Known(st.group_by) \/ st.what \notin {st.group_by, "count(*)"})
             groups == ById({[id |-> g, name |-> Null,
                              count |-> Cardinality({r \in m : ColVal(r, st.group_by) = g})]
                             : g \in gvals})
             rs == IF grouped
                   THEN [i \in 1..Len(groups) |->
                            IF st.what = "count(*)" THEN CountRow(groups[i].count)
                            ELSE IF st.what = "id" THEN Row(groups[i].id, Null)
                            ELSE Row(Null, groups[i].id)]
                   ELSE IF st.what = "count(*)" THEN <<CountRow(Cardinality(m))>>
                   ELSE IF st.what = "*" THEN ById(m)
                   ELSE [i \in 1..Cardinality(m) |->
                            IF st.what = "id" THEN Row(ById(m)[i].id, Null)
                            ELSE Row(Null, ById(m)[i].name)]
             paged == Paged(rs, st.limit, st.offset)
         IN  IF bad THEN DbOut(d, s, TRUE, <<>>)
             ELSE IF st.get_count THEN DbOut(d, s, FALSE, <<CountRow(Len(paged))>>)
             ELSE DbOut(d, s, FALSE, paged)

\* insert into t (...) values (...) [on conflict (id) do update set ...] returning *
DbInsert(d, s, values, on_conflict) ==
    LET given == HasKey(values, "id")
        i == IF given THEN Lookup(values, "id") ELSE s
        s2 == IF given THEN s ELSE s + 1
        n == IF HasKey(values, "name") THEN Lookup(values, "name") ELSE Null
        old == {r \in d : r.id = i}
    IN  IF \E k \in 1..Len(values) : ~Known(values[k][1]) THEN DbOut(d, s, TRUE, <<>>)
        ELSE IF ~given /\ s > MaxId THEN DbBound(d, s)
        ELSE IF i = Null THEN DbOut(d, s2, TRUE, <<>>)
        ELSE IF old = {} THEN DbOut(d \cup {Row(i, n)}, s2, FALSE, <<Row(i, n)>>)
        ELSE IF ~on_conflict THEN DbOut(d, s2, TRUE, <<>>)
        ELSE LET o == CHOOSE r \in old : TRUE
                 new == Row(i, IF HasKey(values, "name") THEN n ELSE o.name)
             IN  DbOut((d \ old) \cup {new}, s2, FALSE, <<new>>)

\* update t set (...) = (...) [where ...] returning *
DbUpdate(d, s, values, where, where_or) ==
    LET m == Matching(d, where, where_or)
        Upd(r) == Row(IF HasKey(values, "id") THEN Lookup(values, "id") ELSE r.id,
                      IF HasKey(values, "name") THEN Lookup(values, "name") ELSE r.name)
        new == {Upd(r) : r \in m}
        d2 == (d \ m) \cup new
    IN  IF values = <<>> \/ (\E k \in 1..Len(values) : ~Known(values[k][1]))
           \/ WhereError(where, where_or)
        THEN DbOut(d, s, TRUE, <<>>)
        ELSE IF (\E r \in new : r.id = Null) \/ Cardinality({r.id : r \in d2}) # Cardinality(d)
        THEN DbOut(d, s, TRUE, <<>>)
        ELSE DbOut(d2, s, FALSE, ById(new))

\* delete from t [where ...] [; select setval(seq, coalesce(max(id) + 1, 1), false)]
DbDelete(d, s, where, where_or, tighten) ==
    LET d2 == d \ Matching(d, where, where_or)
        top == CHOOSE r \in d2 : \A y \in d2 : y.id <= r.id
        s2 == IF ~tighten THEN s ELSE IF d2 = {} THEN 1 ELSE top.id + 1
    IN  IF WhereError(where, where_or) THEN DbOut(d, s, TRUE, <<>>)
        ELSE DbOut(d2, s2, FALSE, <<>>)

DbRun(d, s, st) ==
    IF st.kind = "select" THEN DbSelect(d, s, st)
    ELSE IF st.kind = "insert" THEN DbInsert(d, s, st.values, FALSE)
    ELSE IF st.kind = "upsert" THEN DbInsert(d, s, st.values, TRUE)
    ELSE IF st.kind = "update" THEN DbUpdate(d, s, st.values, st.where, st.where_or)
    ELSE IF st.kind = "delete" THEN DbDelete(d, s, st.where, st.where_or, st.tighten)
    ELSE IF st.kind = "invalid" THEN DbOut(d, s, TRUE, <<>>)
    ELSE DbOut(d, s, FALSE, <<>>)

--------------------------------------------------------------------------
\* The cursor, and the state one call works on

\* what a call reads and writes: the connection's transaction and sequence, the
\* session's _table_infos, and counts of the cursor.execute calls made so far
World(d, s, f, infos) ==
    [db |-> d, seq |-> s, failed |-> f, infos |-> infos, nexec |-> 0, nmeta |-> 0,
     bound |-> FALSE]

Ret(kind, rows, val) == [kind |-> kind, rows |-> rows, val |-> val]
None == Ret("none", <<>>, Null)
RowOrNone(rs) == IF rs = <<>> THEN None ELSE Ret("row", <<rs[1]>>, Null)

Res(w, err, ret, q, params) == [w |-> w, err |-> err, ret |-> ret, q |-> q, params |-> params]
Raise(w, err) == Res(w, err, None, <<>>, <<>>)

Placeholders(q) == {i \in 1..Len(q) : q[i] = "%s"}

\* the connection after the server ran (or rejected) a statement
Ran(w, o) ==
    IF o.bound THEN [w |-> [w EXCEPT !.bound = TRUE], err |-> "", rows |-> <<>>]
    ELSE IF o.err
    THEN [w |-> [w EXCEPT !.failed = TRUE, !.seq = o.seq], err |-> "DBError", rows |-> <<>>]
    ELSE [w |-> [w EXCEPT !.db = o.db, !.seq = o.seq], err |-> "", rows |-> o.rows]

\* psycopg2's cursor.execute(query, params): the arguments are merged into the
\* text on the client (skipped when the text has no placeholder), then the
\* statement runs in the connection's transaction
CursorExecute(w, q, params, st) ==
    IF Cardinality(Placeholders(q)) > 0 /\ Len(params) # Cardinality(Placeholders(q))
    THEN [w |-> [w EXCEPT !.nexec = @ + 1], err |-> "TypeError:format", rows |-> <<>>]
    ELSE IF w.failed
    THEN [w |-> [w EXCEPT !.nexec = @ + 1], err |-> "DBError", rows |-> <<>>]
    ELSE Ran([w EXCEPT !.nexec = @ + 1], DbRun(w.db, w.seq, st))

ExecArgs == {"debug_print", "debug_assert"}

Executed(x, q, pv) == [w |-> x.w, err |-> x.err, rows |-> x.rows, q |-> q, params |-> pv]

_exec_query(w, query, qvalues, kw, st) ==
    IF ~_check_args(DOMAIN kw, ExecArgs)
    THEN Executed([w |-> w, err |-> "TypeError:option", rows |-> <<>>],
                  <<"set transform_null_equals to on;">> \o query, qvalues)
    ELSE IF Get(kw, "debug_assert", FALSE)
    THEN Executed([w |-> w, err |-> "AssertionError", rows |-> <<>>],
                  <<"set transform_null_equals to on;">> \o query, _flatten(qvalues))
    ELSE Executed(CursorExecute(w, <<"set transform_null_equals to on;">> \o query,
                                _flatten(qvalues), st),
                  <<"set transform_null_equals to on;">> \o query, _flatten(qvalues))

\* setdefault's argument is evaluated on every call: get_pkey_column and
\* get_columns each execute one statement, then the stored value is returned
get_table_infos(w, table) ==
    IF w.failed
    THEN [w |-> [w EXCEPT !.nexec = @ + 1, !.nmeta = @ + 1], err |-> "DBError",
          info |-> TableInfos]
    ELSE [w |-> [w EXCEPT !.nexec = @ + 2, !.nmeta = @ + 2,
                          !.infos = IF table \in DOMAIN @ THEN @
                                    ELSE @ @@ (table :> TableInfos)],
          err |-> "",
          info |-> IF table \in DOMAIN w.infos THEN w.infos[table] ELSE TableInfos]

\* get_table_infos when the caller asks for it, the world untouched otherwise
InfosIf(wanted, w, table) ==
    IF wanted THEN get_table_infos(w, table)
    ELSE [w |-> w, err |-> "", info |-> TableInfos]

get_pkey_sequence(w, table) ==
    IF w.failed
    THEN [w |-> [w EXCEPT !.nexec = @ + 1, !.nmeta = @ + 1], err |-> "DBError", name |-> ""]
    ELSE [w |-> [w EXCEPT !.nexec = @ + 1, !.nmeta = @ + 1], err |-> "", name |-> "t_id_seq"]

--------------------------------------------------------------------------
\* The verbs of LittlePGer. Each takes the world and the keyword arguments and
\* returns the world after the call, the error raised ("" for none), the value
\* returned, and the statement and parameters last handed to the cursor.

Tokens(names) == Join([i \in 1..Len(names) |-> <<names[i]>>], ",")
Marks(n) == Join([i \in 1..n |-> <<"%s">>], ",")
AsParams(values) == [i \in 1..Len(values) |-> Sc(values[i][2])]

SelectArgs ==
    {"what", "join", "inner_join", "left_join", "right_join", "where", "where_or",
     "order_by", "group_by", "limit", "offset", "rows", "get_count", "debug_print",
     "debug_assert"}

\* the parameters select hands to _exec_query, without the pop of 'exists'
SelectParams_keeping_exists(where, where_or) == Values(where) \o Values(where_or)

\* list(where.values()) + list(where_or.values()), after where.pop('exists') and
\* where_or.pop('exists') on the non-empty copies
SelectParams(where, where_or) ==
    Values(DictPop(where, ExistsKey)) \o Values(DictPop(where_or, ExistsKey))

\* the statement text select builds (no join is given)
SelectQuery(kw) ==
    LET where == Get(kw, "where", <<>>)
        where_or == Get(kw, "where_or", <<>>)
        inner == <<"select", Get(kw, "what", "*"), "from", "t", "where", "true">>
            \o (IF where # <<>> THEN <<"and">> \o _get_where_clause(where, "and") ELSE <<>>)
            \o (IF where_or # <<>>
                THEN <<"and", "(">> \o _get_where_clause(where_or, "or") \o <<")">>
                ELSE <<>>)
            \o (IF Get(kw, "group_by", "") # "" THEN <<"group by", kw.group_by>> ELSE <<>>)
            \o (IF Get(kw, "order_by", "") # "" THEN <<"order by", kw.order_by>> ELSE <<>>)
            \o (IF Truthy(Get(kw, "limit", Null)) THEN <<"limit", ToString(kw.limit)>>
                ELSE <<>>)
            \o (IF Truthy(Get(kw, "offset", Null)) THEN <<"offset", ToString(kw.offset)>>
                ELSE <<>>)
    IN  IF Get(kw, "get_count", FALSE)
        THEN <<"select", "count(*)", "from", "(">> \o inner \o <<")", "_">>
        ELSE inner

\* what that text asks of the server
SelectStmt(kw) ==
    [kind |-> "select", what |-> Get(kw, "what", "*"),
     where |-> Get(kw, "where", <<>>), where_or |-> Get(kw, "where_or", <<>>),
     group_by |-> Get(kw, "group_by", ""),
     limit |-> IF Truthy(Get(kw, "limit", Null)) THEN kw.limit ELSE Null,
     offset |-> IF Truthy(Get(kw, "offset", Null)) THEN kw.offset ELSE Null,
     get_count |-> Get(kw, "get_count", FALSE)]

\* rows == 'one' raising on every non-empty result
OneRow_strict(x) ==
    IF Len(x.rows) > 0 THEN Res(x.w, "LittlePGerError:too many rows", None, x.q, x.params)
    ELSE Res(x.w, "", RowOrNone(x.rows), x.q, x.params)

\* the rows == 'one' branch of select
OneRow(x) ==
    IF Len(x.rows) > 1 THEN Res(x.w, "LittlePGerError:too many rows", None, x.q, x.params)
    ELSE Res(x.w, "", RowOrNone(x.rows), x.q, x.params)

\* results = self.cursor.fetchall() and the shaping by rows
SelectResult(kw, x) ==
    IF x.err # "" \/ x.w.bound THEN Res(x.w, x.err, None, x.q, x.params)
    ELSE IF Get(kw, "rows", "all") = "all" /\ ~Get(kw, "get_count", FALSE)
    THEN Res(x.w, "", Ret("rows", x.rows, Null), x.q, x.params)
    ELSE OneRow(x)

select(w, kw) ==
    IF ~_check_args(DOMAIN kw, SelectArgs) THEN Raise(w, "TypeError:option")
    ELSE IF Get(kw, "rows", "all") \notin {"all", "one"}
    THEN Raise(w, "LittlePGerError:rows arg")
    ELSE IF WhereAssertFails(Get(kw, "where", <<>>))
            \/ WhereAssertFails(Get(kw, "where_or", <<>>))
    THEN Raise(w, "AssertionError")
    ELSE SelectResult(kw,
            _exec_query(w, SelectQuery(kw),
                        SelectParams(Get(kw, "where", <<>>), Get(kw, "where_or", <<>>)),
                        Pop(kw, SelectArgs \ ExecArgs), SelectStmt(kw)))

Select1Args ==
    {"what", "join", "inner_join", "left_join", "right_join", "where", "where_or",
     "order_by", "group_by", "limit", "offset", "debug_print", "debug_assert"}

select1(w, kw) ==
    IF ~_check_args(DOMAIN kw, Select1Args) THEN Raise(w, "TypeError:option")
    ELSE select(w, [rows |-> "one"] @@ kw)

SelectIdArgs == {"where", "where_or", "debug_print", "debug_assert"}

\* row[pkey] if row else None
PkeyOf(r, pkey) ==
    IF r.err # "" \/ r.ret.kind = "none" THEN r
    ELSE [r EXCEPT !.ret = Ret("value", <<>>, ColVal(r.ret.rows[1], pkey))]

SelectIdWith(ti, kw) ==
    IF ti.err # "" THEN Raise(ti.w, ti.err) ELSE PkeyOf(select1(ti.w, kw), ti.info.pkey)

select_id(w, kw) ==
    IF ~_check_args(DOMAIN kw, SelectIdArgs) THEN Raise(w, "TypeError:option")
    ELSE SelectIdWith(get_table_infos(w, "t"), kw)

\* filter_values and map_values as insert, update and upsert apply them
Filtered(values, columns) == SelectSeq(values, LAMBDA e : e[1] \in Range(columns))
Mapped(values, map_values) ==
    [i \in 1..Len(values) |->
        <<values[i][1],
          IF HasKey(map_values, values[i][2]) THEN Lookup(map_values, values[i][2])
          ELSE values[i][2]>>]

InsertArgs ==
    {"values", "filter_values", "map_values", "return_id", "debug_print", "debug_assert"}

\* returning[self.get_table_infos(table).pkey]
ReturnId(x, ti) ==
    IF ti.err # "" THEN Res(ti.w, ti.err, None, x.q, x.params)
    ELSE Res(ti.w, "", Ret("value", <<>>, ColVal(x.rows[1], ti.info.pkey)), x.q, x.params)

\* the tail shared by insert and _real_upsert: fetchone, then return_id
Returning(x, return_id) ==
    IF x.err # "" \/ x.w.bound THEN Res(x.w, x.err, None, x.q, x.params)
    ELSE IF ~return_id THEN Res(x.w, "", RowOrNone(x.rows), x.q, x.params)
    ELSE ReturnId(x, get_table_infos(x.w, "t"))

DefaultValues == <<"insert", "into", "t", "default", "values", "returning", "*">>

\* a statement ready for _exec_query, or the error raised while building it
Plan(w, err, q, values, kw, st) ==
    [w |-> w, err |-> err, q |-> q, values |-> values, kw |-> kw, st |-> st]

InsertQuery(values) ==
    <<"insert", "into", "t", "(">> \o Tokens(Keys(values)) \o <<")", "values", "(">>
    \o Marks(Len(values)) \o <<")", "returning", "*">>

\* the else branch of insert: filter_values, map_values, the statement
InsertValues(ti, values, kw) ==
    LET v == Mapped(IF Get(kw, "filter_values", FALSE)
                    THEN Filtered(values, ti.info.columns) ELSE values,
                    Get(kw, "map_values", <<>>))
    IN  Plan(ti.w, ti.err, InsertQuery(v), v, Pop(kw, {"filter_values", "map_values"}),
             IF v = <<>> THEN [kind |-> "invalid"] ELSE [kind |-> "insert", values |-> v])

InsertPlan(w, kw) ==
    IF Get(kw, "values", <<>>) = <<>>
    THEN Plan(w, "", DefaultValues, <<>>, Pop(kw, {"values", "return_id"}),
              [kind |-> "insert", values |-> <<>>])
    ELSE InsertValues(InfosIf(Get(kw, "filter_values", FALSE), w, "t"), kw.values,
                      Pop(kw, {"values", "return_id"}))

\* self._exec_query(q, values.values(), **kw) and what follows it
RunPlan(p, return_id) ==
    IF p.err # "" THEN Raise(p.w, p.err)
    ELSE Returning(_exec_query(p.w, p.q, AsParams(p.values), p.kw, p.st), return_id)

insert(w, kw) ==
    IF ~_check_args(DOMAIN kw, InsertArgs) THEN Raise(w, "TypeError:option")
    ELSE RunPlan(InsertPlan(w, kw), Get(kw, "return_id", FALSE))

UpdateArgs ==
    {"set", "values", "where", "where_or", "filter_values", "map_values", "debug_print",
     "debug_assert"}

\* where [and (where_or)] as update and delete append it
WhereTail(where, where_or) ==
    (IF where # <<>> THEN <<"where">> \o _get_where_clause(where, "and") ELSE <<>>)
    \o (IF where_or = <<>> THEN <<>>
        ELSE IF where # <<>>
        THEN <<"and", "(">> \o _get_where_clause(where_or, "or") \o <<")">>
        ELSE <<"where">> \o _get_where_clause(where_or, "or"))

\* return self.cursor.fetchone()
FetchOne(x) ==
    IF x.err # "" THEN Res(x.w, x.err, None, x.q, x.params)
    ELSE Res(x.w, "", RowOrNone(x.rows), x.q, x.params)

\* update handing the where parameters to the cursor before the values
UpdateWith_where_first(ti, v, where, where_or, rest) ==
    IF ti.err # "" THEN Raise(ti.w, ti.err)
    ELSE IF WhereAssertFails(where) \/ WhereAssertFails(where_or)
    THEN Raise(ti.w, "AssertionError")
    ELSE FetchOne(_exec_query(ti.w,
            <<"update", "t", "set", "(">> \o Tokens(Keys(v)) \o <<")", "=", "(">>
                \o Marks(Len(v)) \o <<")">> \o WhereTail(where, where_or)
                \o <<"returning", "*">>,
            Values(where) \o AsParams(v) \o Values(where_or),
            rest,
            [kind |-> "update", values |-> v, where |-> where, where_or |-> where_or]))

UpdateWith(ti, v, where, where_or, rest) ==
    IF ti.err # "" THEN Raise(ti.w, ti.err)
    ELSE IF WhereAssertFails(where) \/ WhereAssertFails(where_or)
    THEN Raise(ti.w, "AssertionError")
    ELSE FetchOne(_exec_query(ti.w,
            <<"update", "t", "set", "(">> \o Tokens(Keys(v)) \o <<")", "=", "(">>
                \o Marks(Len(v)) \o <<")">> \o WhereTail(where, where_or)
                \o <<"returning", "*">>,
            AsParams(v) \o Values(where) \o Values(where_or),
            rest,
            [kind |-> "update", values |-> v, where |-> where, where_or |-> where_or]))

UpdateValues(ti, kw) ==
    Mapped(IF Get(kw, "filter_values", FALSE)
           THEN Filtered(Get(kw, "values", Get(kw, "set", <<>>)), ti.info.columns)
           ELSE Get(kw, "values", Get(kw, "set", <<>>)),
           Get(kw, "map_values", <<>>))

UpdateInfos(ti, kw) ==
    UpdateWith(ti, UpdateValues(ti, kw), Get(kw, "where", <<>>), Get(kw, "where_or", <<>>),
               Pop(kw, UpdateArgs \ ExecArgs))

update(w, kw) ==
    IF ~_check_args(DOMAIN kw, UpdateArgs) THEN Raise(w, "TypeError:option")
    ELSE UpdateInfos(InfosIf(Get(kw, "filter_values", FALSE), w, "t"), kw)

UpsertArgs ==
    {"set", "values", "filter_values", "map_values", "return_id", "debug_print",
     "debug_assert"}

\* `select1` and `cursor` are not names of the module: the lookup raises
\* NameError as soon as the primary key is in the value map
FakeUpsertWith(ti, values, kw) ==
    IF ti.err # "" THEN Raise(ti.w, ti.err)
    ELSE IF HasKey(values, ti.info.pkey) THEN Raise(ti.w, "NameError")
    ELSE insert(ti.w, [values |-> values] @@ Pop(kw, {"values", "set"}))

_fake_upsert(w, kw) ==
    FakeUpsertWith(get_table_infos(w, "t"), Get(kw, "values", Get(kw, "set", <<>>)), kw)

\* updates = ','.join(['%s = excluded.%s' % (c, c) for c in values.keys()])
UpdateList(values, pkey) ==
    Join([i \in 1..Len(values) |-> <<values[i][1], "=", "excluded.", values[i][1]>>], ",")

\* "remove null primary key value", inside the filter_values branch
StripPkey(values, pkey, filter) ==
    IF filter /\ HasKey(values, pkey) /\ ~Truthy(Lookup(values, pkey))
    THEN DictPop(values, pkey)
    ELSE values

UpsertQuery(values, pkey) ==
    <<"insert", "into", "t", "(">> \o Tokens(Keys(values)) \o <<")", "values", "(">>
    \o Marks(Len(values)) \o <<")", "on conflict", "(", pkey, ")", "do update set">>
    \o UpdateList(values, pkey) \o <<"returning", "*">>

\* the else branch of _real_upsert, after its get_table_infos calls
UpsertValues(ti, values, kw) ==
    LET filter == Get(kw, "filter_values", FALSE)
        v == Mapped(StripPkey(IF filter THEN Filtered(values, ti.info.columns) ELSE values,
                              ti.info.pkey, filter),
                    Get(kw, "map_values", <<>>))
    IN  Plan(ti.w, ti.err, UpsertQuery(v, ti.info.pkey), v,
             Pop(kw, {"filter_values", "map_values"}),
             IF v = <<>> THEN [kind |-> "invalid"] ELSE [kind |-> "upsert", values |-> v])

\* pkey = self.get_table_infos(table).pkey, then columns under filter_values
UpsertInfos(ti, filter) ==
    IF ti.err # "" \/ ~filter THEN ti ELSE get_table_infos(ti.w, "t")

UpsertPlan(w, kw) ==
    IF Get(kw, "values", Get(kw, "set", <<>>)) = <<>>
    THEN Plan(w, "", DefaultValues, <<>>, Pop(kw, {"values", "set", "return_id"}),
              [kind |-> "insert", values |-> <<>>])
    ELSE UpsertValues(UpsertInfos(get_table_infos(w, "t"), Get(kw, "filter_values", FALSE)),
                      Get(kw, "values", Get(kw, "set", <<>>)),
                      Pop(kw, {"values", "set", "return_id"}))

_real_upsert(w, kw) == RunPlan(UpsertPlan(w, kw), Get(kw, "return_id", FALSE))

upsert(w, impl, kw) ==
    IF ~_check_args(DOMAIN kw, UpsertArgs) THEN Raise(w, "TypeError:option")
    ELSE IF impl = "_real_upsert" THEN _real_upsert(w, kw)
    ELSE _fake_upsert(w, kw)

DeleteArgs == {"where", "where_or", "tighten_sequence", "debug_print", "debug_assert"}

SetVal(pkey) ==
    <<";", "select", "setval", "(", "%s", ",", "coalesce", "(", "(", "select", "max", "(",
      pkey, ")", "+", "1", "from", "t", ")", ",", "1", ")", ",", "false", ")">>

DeleteRun(sq, pkey, where, where_or, tighten, rest) ==
    IF sq.err # "" THEN Raise(sq.w, sq.err)
    ELSE FetchOne(_exec_query(sq.w,
            <<"delete", "from", "t">> \o WhereTail(where, where_or)
                \o (IF tighten THEN SetVal(pkey) ELSE <<>>),
            Values(where) \o Values(where_or)
                \o (IF tighten THEN <<Str(sq.name)>> ELSE <<>>),
            rest,
            [kind |-> "delete", where |-> where, where_or |-> where_or,
             tighten |-> tighten]))

\* delete that leaves the sequence alone whatever tighten_sequence is
DeleteWith_no_tighten(ti, where, where_or, tighten, rest) ==
    IF ti.err # "" THEN Raise(ti.w, ti.err)
    ELSE DeleteRun([w |-> ti.w, err |-> "", name |-> ""],
                   ti.info.pkey, where, where_or, FALSE, rest)

\* pkey = self.get_table_infos(table).pkey; ts_vals = [self.get_pkey_sequence(table)]
DeleteWith(ti, where, where_or, tighten, rest) ==
    IF ti.err # "" THEN Raise(ti.w, ti.err)
    ELSE DeleteRun(IF tighten THEN get_pkey_sequence(ti.w, "t")
                   ELSE [w |-> ti.w, err |-> "", name |-> ""],
                   ti.info.pkey, where, where_or, tighten, rest)

delete(w, kw) ==
    IF ~_check_args(DOMAIN kw, DeleteArgs) THEN Raise(w, "TypeError:option")
    ELSE IF WhereAssertFails(Get(kw, "where", <<>>))
            \/ WhereAssertFails(Get(kw, "where_or", <<>>))
    THEN Raise(w, "AssertionError")
    ELSE DeleteWith(InfosIf(Get(kw, "tighten_sequence", FALSE), w, "t"),
                    Get(kw, "where", <<>>), Get(kw, "where_or", <<>>),
                    Get(kw, "tighten_sequence", FALSE), Pop(kw, DeleteArgs \ ExecArgs))

CountArgs ==
    {"what", "join", "inner_join", "left_join", "right_join", "where", "where_or",
     "group_by", "debug_print", "debug_assert"}

\* int(row['count'])
CountOf(r) ==
    IF r.err # "" \/ r.w.bound THEN r
    ELSE [r EXCEPT !.ret = Ret("value", <<>>, r.ret.rows[1].count)]

count(w, kw) ==
    IF ~_check_args(DOMAIN kw, CountArgs) THEN Raise(w, "TypeError:option")
    ELSE CountOf(select(w, IF "group_by" \notin DOMAIN kw
                           THEN [what |-> "count(*)", rows |-> "one"] @@ Pop(kw, {"what"})
                           ELSE [get_count |-> TRUE] @@ kw))

ExistsArgs == {"what", "where", "where_or", "debug_print", "debug_assert"}

\* ... is not None
IsNotNone(r) ==
    IF r.err # "" THEN r
    ELSE [r EXCEPT !.ret = Ret("bool", <<>>, IF r.ret.kind = "none" THEN 0 ELSE 1)]

exists(w, kw) ==
    IF ~_check_args(DOMAIN kw, ExistsArgs) THEN Raise(w, "TypeError:option")
    ELSE IsNotNone(select(w, [limit |-> 1, rows |-> "one"] @@ kw))

--------------------------------------------------------------------------
\* The session object

\* re.search('PostgreSQL (\d+)[.](\d+)[.](\d+)', ver) finds a match
VersionMatch(b) == Len(b) >= 3

\* v[0] > 9 or (v[0] >= 9 and v[1] >= 5)
NativeUpsert(v) == v[1] > 9 \/ (v[1] >= 9 /\ v[2] >= 5)

\* get_pg_version: one statement on the cursor, then the pattern's three groups
get_pg_version(w, b) ==
    LET w1 == [w EXCEPT !.nexec = @ + 1] IN
    IF w.failed THEN [w |-> w1, err |-> "DBError", v |-> <<>>]
    ELSE IF ~VersionMatch(b) THEN [w |-> w1, err |-> "AttributeError", v |-> <<>>]
    ELSE [w |-> w1, err |-> "", v |-> SubSeq(b, 1, 3)]

\* LittlePGer.__init__(conn, commit)
NewSession(w, b, commit) ==
    LET g == get_pg_version(w, b) IN
    [err |-> g.err, nexec |-> g.w.nexec,
     self |-> [to_commit |-> commit,
               pg_version |-> g.v,
               upsert_impl |-> IF g.err # "" THEN ""
                               ELSE IF NativeUpsert(g.v) THEN "_real_upsert"
                               ELSE "_fake_upsert",
               infos |-> NoKw,
               open |-> FALSE]]

SessionWorld(s) == World(db, seq, failed, sessions[s].infos)

Last(op, s, kw, r, committed) ==
    [op |-> op, sid |-> s, kw |-> kw, err |-> r.err, ret |-> r.ret, q |-> r.q,
     params |-> r.params, nexec |-> r.w.nexec, nmeta |-> r.w.nmeta, committed |-> committed,
     pending |-> {}]

NoCall == Last("", 0, NoKw, Raise(World({}, 1, FALSE, NoKw), ""), FALSE)

\* a constructor or __enter__ call's record
Made(op, s, n) ==
    [NoCall EXCEPT !.op = op, !.sid = s, !.err = n.err, !.nexec = n.nexec]

\* a verb called on session s with keyword arguments kw, with outcome r
Call(op, s, kw, r) ==
    /\ ~r.w.bound
    /\ db' = r.w.db
    /\ seq' = r.w.seq
    /\ failed' = r.w.failed
    /\ sessions' = [sessions EXCEPT ![s].infos = r.w.infos]
    /\ last' = Last(op, s, kw, r, FALSE)
    /\ dirty' = IF r.w.db # db THEN dirty \cup {s} ELSE dirty
    /\ UNCHANGED <<banner, caller, durable>>

Select(s, kw) == Call("select", s, kw, select(SessionWorld(s), kw))
Select1(s, kw) == Call("select1", s, kw, select1(SessionWorld(s), kw))
SelectId(s, kw) == Call("select_id", s, kw, select_id(SessionWorld(s), kw))
Insert(s, kw) == Call("insert", s, kw, insert(SessionWorld(s), kw))
Update(s, kw) == Call("update", s, kw, update(SessionWorld(s), kw))
Upsert(s, kw) == Call("upsert", s, kw, upsert(SessionWorld(s), sessions[s].upsert_impl, kw))
Delete(s, kw) == Call("delete", s, kw, delete(SessionWorld(s), kw))
Count(s, kw) == Call("count", s, kw, count(SessionWorld(s), kw))
Exists(s, kw) == Call("exists", s, kw, exists(SessionWorld(s), kw))

\* LittlePGer(conn, commit) on the shared connection
Construct(commit) ==
    LET n == NewSession(World(db, seq, failed, NoKw), banner, commit) IN
    /\ Len(sessions) < MaxSessions
    /\ sessions' = IF n.err = "" THEN Append(sessions, n.self) ELSE sessions
    /\ last' = Made("construct", 0, n)
    /\ UNCHANGED <<banner, caller, db, durable, seq, failed, dirty>>

\* __enter__: a new session on the same connection, with the same commit setting
Enter(s) ==
    LET n == NewSession(SessionWorld(s), banner, sessions[s].to_commit) IN
    /\ Len(sessions) < MaxSessions
    /\ ~sessions[s].open
    /\ sessions' = IF n.err = "" THEN Append([sessions EXCEPT ![s].open = TRUE], n.self)
                   ELSE sessions
    /\ last' = Made("enter", s, n)
    /\ UNCHANGED <<banner, caller, db, durable, seq, failed, dirty>>

\* conn.commit(), invoked by session s: the connection's one open transaction
\* becomes durable (an aborted one is discarded)
ConnCommit(op, s) ==
    /\ durable' = IF failed THEN durable ELSE db
    /\ db' = IF failed THEN durable ELSE db
    /\ failed' = FALSE
    /\ dirty' = {}
    /\ last' = [NoCall EXCEPT !.op = op, !.sid = s, !.committed = TRUE,
                              !.pending = IF failed \/ db = durable THEN {} ELSE dirty]
    /\ UNCHANGED <<banner, caller, seq>>

\* conn.rollback(), invoked by session s
ConnRollback(op, s) ==
    /\ db' = durable
    /\ failed' = FALSE
    /\ dirty' = {}
    /\ last' = [NoCall EXCEPT !.op = op, !.sid = s]
    /\ UNCHANGED <<banner, caller, durable, seq>>

\* commit() without its check of _to_commit
commit_unchecked(s, op) == ConnCommit(op, s)

commit(s, op) ==
    IF ~sessions[s].to_commit
    THEN /\ last' = [NoCall EXCEPT !.op = op, !.sid = s, !.err = "LittlePGerError:commit"]
         /\ UNCHANGED <<banner, caller, db, durable, seq, failed, dirty>>
    ELSE ConnCommit(op, s)

Commit(s) == commit(s, "commit") /\ UNCHANGED sessions

Rollback(s) == ConnRollback("rollback", s) /\ UNCHANGED sessions

\* __exit__ committing whatever the session's setting
exit_always_commit(s) == ConnCommit("exit", s)

__exit__(s) ==
    IF sessions[s].to_commit THEN commit(s, "exit") ELSE ConnRollback("exit", s)

Exit(s) ==
    /\ sessions[s].open
    /\ __exit__(s)
    /\ sessions' = [sessions EXCEPT ![s].open = FALSE]

--------------------------------------------------------------------------
\* Specifications

\* a session constructed on a 9.5 server, not configured to commit
Session95 == NewSession(World({}, 1, FALSE, NoKw), <<9, 5, 0>>, FALSE).self

NoFilters == [where |-> <<>>, where_or |-> <<>>, extra |-> {}]

\* SpecWhere: the caller holds any where / where_or maps, and one session
\* builds select, update and delete statements from them over a table that
\* already holds two rows.

MaxEntries == 2     \* entries of a where map

FilterEntries ==
    { <<Col("id"), Sc(1)>>,
      <<Col("id"), Lst(<<1, 2>>)>>,
      <<Col("id"), Tup(<<>>)>>,
      <<Col("name"), Tup(<<0, 1>>)>>,
      <<Col("name"), Sc(Null)>>,
      <<Col("name"), SetOf(<<Sc(1), Tup(<<0, 1>>)>>)>>,
      <<ColOp("id", ">"), Sc(0)>>,
      <<ColOp("id", "<"), SetOf(<<Sc(2), Sc(1)>>)>>,
      <<ColOpFn("name", "=", "sign"), Sc(1)>>,
      <<ColOpFn("id", ">", "sign"), SetOf(<<Sc(0)>>)>>,
      <<ExistsKey, Str("select 1")>> }

OrEntries ==
    { <<Col("id"), Sc(2)>>,
      <<Col("name"), SetOf(<<Sc(0), Sc(1)>>)>>,
      <<ExistsKey, Str("select 1 where false")>> }

\* the dicts of at most n entries from a menu: distinct keys, any traversal order
RECURSIVE Dicts(_, _)
Dicts(menu, n) ==
    IF n = 0 THEN {<<>>}
    ELSE LET shorter == Dicts(menu, n - 1)
         IN  shorter \cup {Append(d, e) : d \in {x \in shorter : Len(x) = n - 1},
                                          e \in menu}

DistinctKeys(d) == \A i, j \in 1..Len(d) : d[i][1] = d[j][1] => i = j
WhereMaps == {d \in Dicts(FilterEntries, MaxEntries) : DistinctKeys(d)}
OrMaps == Dicts(OrEntries, 1)

KwWhere(w, o) ==
    (IF w # <<>> THEN [where |-> w] ELSE NoKw) @@ (IF o # <<>> THEN [where_or |-> o] ELSE NoKw)

InitWhere ==
    /\ banner = <<9, 5, 0>>
    /\ sessions = <<Session95>>
    /\ db = {Row(1, 0), Row(2, 1)}
    /\ durable = db
    /\ seq = 3
    /\ failed = FALSE
    /\ last = NoCall
    /\ dirty = {}
    /\ caller \in [where : WhereMaps, where_or : OrMaps, extra : {{}}]

NextWhere ==
    \/ Select(1, KwWhere(caller.where, caller.where_or))
    \/ Update(1, [values |-> << <<"name", 1>> >>] @@ KwWhere(caller.where, caller.where_or))
    \/ Update(1, [values |-> << <<"name", 0>>, <<"id", 2>> >>]
                     @@ KwWhere(caller.where, caller.where_or))
    \/ Delete(1, KwWhere(caller.where, caller.where_or))
    \/ Rollback(1)

SpecWhere == InitWhere /\ [][NextWhere]_vars

\* SpecVerbs: one session calls the nine verbs on an empty table, each call
\* with a few options of the verb and, or not, the extra option the caller
\* holds, which may be outside the verb's allow-list.

\* the value an option is given
Arg(k) ==
    IF k \in {"join", "inner_join", "left_join", "right_join"} THEN <<>>
    ELSE IF k = "where" THEN << <<Col("name"), Sc(1)>> >>
    ELSE IF k = "where_or" THEN << <<Col("id"), Sc(1)>> >>
    ELSE IF k \in {"values", "set"} THEN << <<"name", 1>> >>
    ELSE IF k = "map_values" THEN << <<1, Null>> >>
    ELSE IF k = "what" THEN "*"
    ELSE IF k = "order_by" THEN "id"
    ELSE IF k \in {"group_by", "conflict_column"} THEN "name"
    ELSE IF k = "rows" THEN "one"
    ELSE IF k \in {"limit", "offset"} THEN 1
    ELSE TRUE

KwOf(ks) == [k \in ks |-> Arg(k)]

ExtraOptions ==
    {"bogus", "conflict_column", "rows", "limit", "return_id", "tighten_sequence",
     "values", "where", "what", "group_by", "get_count", "order_by", "debug_assert",
     "filter_values", "map_values"}

\* the options of a call: the verb's own, with or without the caller's extra one
WithExtra(ks) == {KwOf(ks), KwOf(ks \cup caller.extra)}

InitVerbs ==
    /\ banner = <<9, 5, 0>>
    /\ sessions = <<Session95>>
    /\ db = {}
    /\ durable = {}
    /\ seq = 1
    /\ failed = FALSE
    /\ last = NoCall
    /\ dirty = {}
    /\ caller \in [where : {<<>>}, where_or : {<<>>},
                  extra : {{}} \cup {{k} : k \in ExtraOptions}]

NextVerbs ==
    \/ \E ks \in {{}, {"where", "rows"}} : \E kw \in WithExtra(ks) : Select(1, kw)
    \/ \E n \in 0..MaxId : Select(1, [limit |-> n])
    \/ \E k \in 0..MaxId : Select(1, [offset |-> k])
    \/ \E kw \in WithExtra({"where"}) : Select1(1, kw)
    \/ \E kw \in WithExtra({"where_or"}) : SelectId(1, kw)
    \/ \E ks \in {{}, {"values"}} : \E kw \in WithExtra(ks) : Insert(1, kw)
    \/ \E kw \in WithExtra({"set", "where_or"}) : Update(1, kw)
    \/ \E kw \in WithExtra({"values"}) : Upsert(1, kw)
    \/ \E ks \in {{}, {"where_or"}} : \E kw \in WithExtra(ks) : Delete(1, kw)
    \/ \E kw \in WithExtra({"where"}) : Count(1, kw)
    \/ \E kw \in WithExtra({"where"}) : Exists(1, kw)
    \/ Rollback(1)

SpecVerbs == InitVerbs /\ [][NextVerbs]_vars

\* Spec: sessions are constructed on one shared connection, entered and left
\* as context managers, and write to the table, commit and roll back in any
\* interleaving.

Init ==
    /\ banner = <<9, 5, 0>>
    /\ sessions = <<>>
    /\ db = {}
    /\ durable = {}
    /\ seq = 1
    /\ failed = FALSE
    /\ last = NoCall
    /\ dirty = {}
    /\ caller = NoFilters

Next ==
    \/ \E c \in BOOLEAN : Construct(c)
    \/ \E s \in 1..Len(sessions) : Enter(s)
    \/ \E s \in 1..Len(sessions) : Exit(s)
    \/ \E s \in 1..Len(sessions) : Commit(s)
    \/ \E s \in 1..Len(sessions) : Rollback(s)
    \/ \E s \in 1..Len(sessions) : Insert(s, KwOf({}))
    \/ \E s \in 1..Len(sessions) : Delete(s, KwOf({"where_or"}))

Spec == Init /\ [][Next]_vars

\* SpecUpsert: one session on a 9.5 server upserts value maps, with the
\* options the caller holds, into a table that starts with any rows.

IdPart == {<<>>} \cup {<< <<"id", i>> >> : i \in Ids \cup {Null}}
NamePart == {<<>>, << <<"name", 0>> >>, << <<"name", 1>> >>}
OtherPart == {<<>>, << <<"zz", 1>> >>}
ValueMaps == {a \o b \o c : a \in IdPart, b \in NamePart, c \in OtherPart}

InitUpsert ==
    /\ banner = <<9, 5, 0>>
    /\ sessions = <<Session95>>
    /\ db \in SUBSET {Row(i, 0) : i \in Ids}
    /\ durable = db
    /\ seq = 1
    /\ failed = FALSE
    /\ last = NoCall
    /\ dirty = {}
    /\ caller \in [where : {<<>>}, where_or : {<<>>},
                  extra : SUBSET {"filter_values", "map_values", "return_id"}]

NextUpsert ==
    \/ \E v \in ValueMaps : Upsert(1, [values |-> v] @@ KwOf(caller.extra))
    \/ Rollback(1)

SpecUpsert == InitUpsert /\ [][NextUpsert]_vars

\* SpecVersion: sessions are constructed and entered on a server of any of
\* these versions, and upsert.

\* the numeric components of the banner `select version()` returns
Banners == {<<8, 4, 22>>, <<9, 4, 1>>, <<9, 5, 0>>, <<9, 6, 2>>, <<10, 4>>, <<11, 2>>}

InitVersion ==
    /\ banner \in Banners
    /\ sessions = <<>>
    /\ db = {}
    /\ durable = {}
    /\ seq = 1
    /\ failed = FALSE
    /\ last = NoCall
    /\ dirty = {}
    /\ caller = NoFilters

NextVersion ==
    \/ \E c \in BOOLEAN : Construct(c)
    \/ \E s \in 1..Len(sessions) : Enter(s)
    \/ \E s \in 1..Len(sessions) : Exit(s)
    \/ \E s \in 1..Len(sessions) : Upsert(s, KwOf({"values"}))
    \/ \E s \in 1..Len(sessions) : Rollback(s)

SpecVersion == InitVersion /\ [][NextVersion]_vars

\* SpecFallback: one session on a 9.4 server upserts value maps into a table
\* that starts with any rows.

Session94 == NewSession(World({}, 1, FALSE, NoKw), <<9, 4, 1>>, FALSE).self

InitFallback ==
    /\ banner = <<9, 4, 1>>
    /\ sessions = <<Session94>>
    /\ db \in SUBSET {Row(i, 0) : i \in Ids}
    /\ durable = db
    /\ seq = 1
    /\ failed = FALSE
    /\ last = NoCall
    /\ dirty = {}
    /\ caller = NoFilters

NextFallback ==
    \/ \E v \in ValueMaps : Upsert(1, [values |-> v])
    \/ Rollback(1)

SpecFallback == InitFallback /\ [][NextFallback]_vars

\* SpecTighten: one session deletes rows by primary key with
\* tighten_sequence and inserts default rows, on a table that starts with any
\* rows and a sequence in any state.

InitTighten ==
    /\ banner = <<9, 5, 0>>
    /\ sessions = <<Session95>>
    /\ db \in SUBSET {Row(i, 0) : i \in Ids}
    /\ durable = db
    /\ seq \in 1..(MaxId + 1)
    /\ failed = FALSE
    /\ last = NoCall
    /\ dirty = {}
    /\ caller = NoFilters

NextTighten ==
    \/ \E i \in Ids : Delete(1, [where |-> << <<Col("id"), Sc(i)>> >>,
                                 tighten_sequence |-> TRUE])
    \/ Insert(1, NoKw)
    \/ Rollback(1)

SpecTighten == InitTighten /\ [][NextTighten]_vars

--------------------------------------------------------------------------
\* Properties of the where-clause compiler

Positions(q) == SelectSeq([i \in 1..Len(q) |-> i], LAMBDA i : q[i] = "%s")
Occurs(q, frag) ==
    \E i \in 0..(Len(q) - Len(frag)) : SubSeq(q, i + 1, i + Len(frag)) = frag

\* the column a placeholder of a where clause is compared with
PlaceholderCol(q, p) == IF q[p - 1] = "(" THEN q[p - 5] ELSE q[p - 2]

\* the entries of the AND map, then of the OR map, each with the values its
\* placeholders are to be bound to: none for exists, the members for a set
Bindings(kw) ==
    LET es == Get(kw, "where", <<>>) \o Get(kw, "where_or", <<>>) IN
    Concat([i \in 1..Len(es) |->
        IF es[i][1] = ExistsKey THEN <<>>
        ELSE IF es[i][2].kind = "set"
        THEN [j \in 1..Len(es[i][2].elems) |-> <<es[i][1], es[i][2].elems[j]>>]
        ELSE << <<es[i][1], es[i][2]>> >>])

\* C1: in every statement select hands to the cursor, the placeholders of the
\* WHERE text are as many as the flattened parameters, and the k-th placeholder
\* is compared with the column of the entry that the k-th parameter comes from
\* (AND entries first, then OR entries, in traversal order).
C1_PlaceholdersMatchParams ==
    (last.op = "select" /\ last.q # <<>>) =>
        LET ph == Positions(last.q)
            b == Bindings(last.kw)
        IN  /\ Len(ph) = Len(last.params)
            /\ Len(b) = Len(last.params)
            /\ \A k \in 1..Len(b) :
                  /\ last.params[k] = b[k][2]
                  /\ PlaceholderCol(last.q, ph[k]) = b[k][1].col

C1_Witness ==
    /\ last.op = "select"
    /\ last.err = ""
    /\ Len(last.params) >= 3
    /\ "where_or" \in DOMAIN last.kw
    /\ \E i \in 1..Len(last.kw.where) : last.kw.where[i][1] = ExistsKey
    /\ \E i \in 1..Len(last.kw.where) : last.kw.where[i][2].kind = "set"

ExistsEntries(kw) ==
    SelectSeq(Get(kw, "where", <<>>) \o Get(kw, "where_or", <<>>),
              LAMBDA e : e[1] = ExistsKey)

\* C2: in select, update and delete, an exists entry with a string value
\* compiles to `exists (<value>)` and adds nothing to the parameters handed to
\* the cursor.
C2_ExistsBindsNothing ==
    (last.op \in {"select", "update", "delete"} /\ last.q # <<>>) =>
        \A i \in 1..Len(ExistsEntries(last.kw)) :
            LET v == ExistsEntries(last.kw)[i][2] IN
            /\ Occurs(last.q, <<"exists", "(", v.sql, ")">>)
            /\ \A k \in 1..Len(last.params) : last.params[k] # v

PlainEntries(kw) ==
    SelectSeq(Get(kw, "where", <<>>) \o Get(kw, "where_or", <<>>),
              LAMBDA e : e[1].arity = 1 /\ e[1] # ExistsKey)

\* C3 as claimed: under a plain column key every tuple and every list compiles
\* to `<column> in %s` with the whole sequence as one parameter.
C3_EverySequenceIn ==
    last.q # <<>> =>
        \A i \in 1..Len(PlainEntries(last.kw)) :
            LET e == PlainEntries(last.kw)[i] IN
            e[2].kind \in {"tuple", "list"} =>
                /\ Occurs(last.q, <<e[1].col, "in", "%s">>)
                /\ Occurs(last.params, <<e[2]>>)

\* the fragment the amended claim gives a non-set value under a plain column
PlainFragment(col, v) ==
    IF v.kind = "tuple" THEN <<col, "in", "%s">> ELSE <<col, "=", "%s">>

\* C3: under a plain column key a tuple compiles to `<column> in %s` and any
\* other non-set value (a scalar, a list) to `<column> = %s`, with the whole
\* value as one parameter; a set compiles to the parenthesized AND of its
\* members' fragments with one parameter per member.
C3_PlainKeyFragments ==
    last.q # <<>> =>
        \A i \in 1..Len(PlainEntries(last.kw)) :
            LET e == PlainEntries(last.kw)[i] IN
            IF e[2].kind = "set"
            THEN /\ Occurs(last.q,
                      <<"(">> \o Join([j \in 1..Len(e[2].elems) |->
                                          PlainFragment(e[1].col, e[2].elems[j])], "and")
                      \o <<")">>)
                 /\ Occurs(last.params, e[2].elems)
            ELSE /\ Occurs(last.q, PlainFragment(e[1].col, e[2]))
                 /\ Occurs(last.params, <<e[2]>>)

C3_Witness ==
    /\ last.op = "select"
    /\ last.q # <<>>
    /\ \E i \in 1..Len(PlainEntries(last.kw)) : PlainEntries(last.kw)[i][2].kind = "list"
    /\ \E i \in 1..Len(PlainEntries(last.kw)) : PlainEntries(last.kw)[i][2].kind = "set"
    /\ Occurs(last.q, <<"name", "in", "%s">>)

--------------------------------------------------------------------------
\* Properties of the verbs

Allowed(op) ==
    IF op = "select" THEN SelectArgs
    ELSE IF op = "select1" THEN Select1Args
    ELSE IF op = "select_id" THEN SelectIdArgs
    ELSE IF op = "insert" THEN InsertArgs
    ELSE IF op = "update" THEN UpdateArgs
    ELSE IF op = "upsert" THEN UpsertArgs
    ELSE IF op = "delete" THEN DeleteArgs
    ELSE IF op = "count" THEN CountArgs
    ELSE IF op = "exists" THEN ExistsArgs
    ELSE {}

Verbs ==
    {"select", "select1", "select_id", "insert", "update", "upsert", "delete", "count",
     "exists"}

Unsupported(call) == call.op \in Verbs /\ ~(DOMAIN call.kw \subseteq Allowed(call.op))

Satisfying(call) ==
    Matching(db, Get(call.kw, "where", <<>>), Get(call.kw, "where_or", <<>>))

\* a select for one row, with no paging, grouping or counting, that ran
OneRowCall(call) ==
    /\ \/ call.op = "select1"
       \/ call.op = "select" /\ Get(call.kw, "rows", "all") = "one"
    /\ DOMAIN call.kw \subseteq {"where", "where_or", "rows", "what", "order_by"}
    /\ call.err \in {"", "LittlePGerError:too many rows"}

\* C5: select with rows="one", and select1, return the matching row when one
\* row satisfies the filter, None when no row does, and raise the
\* too-many-rows error when two or more do.
C5_OneRowOrNone ==
    OneRowCall(last) =>
        LET m == Satisfying(last) IN
        /\ Cardinality(m) = 0 => last.err = "" /\ last.ret = None
        /\ Cardinality(m) = 1 => last.err = "" /\ last.ret = Ret("row", ById(m), Null)
        /\ Cardinality(m) >= 2 => last.err = "LittlePGerError:too many rows"

C5_Witness ==
    /\ OneRowCall(last)
    /\ last.op = "select1"
    /\ Cardinality(Satisfying(last)) = 2
    /\ last.err = "LittlePGerError:too many rows"

--------------------------------------------------------------------------
\* Properties of sessions sharing a connection

\* session s leaves its scope in this step
Exits(s) == s \in 1..Len(sessions) /\ sessions[s].open /\ ~sessions'[s].open

\* C6 as claimed: whatever the interleaving, when the table's durable contents
\* change, the pending writes are not all of sessions configured not to commit.
C6_NoCommitWorkNeverDurable ==
    [][durable' # durable => \E s \in dirty : sessions[s].to_commit]_vars

\* C6: on scope exit of a session the connection's one transaction, with the
\* pending work of every session sharing the connection, is committed if that
\* session is configured to commit and rolled back otherwise; the durable
\* contents change only in a commit invoked by a session configured to commit.
C6_ExitCommitsOrRollsBack ==
    [][/\ \A s \in 1..Len(sessions) :
              Exits(s) =>
                  IF sessions[s].to_commit
                  THEN /\ last'.committed
                       /\ durable' = (IF failed THEN durable ELSE db)
                       /\ db' = durable'
                  ELSE /\ ~last'.committed
                       /\ durable' = durable
                       /\ db' = durable
       /\ durable' # durable =>
              /\ last'.committed
              /\ last'.sid \in 1..Len(sessions)
              /\ sessions[last'.sid].to_commit]_vars

\* the exit of a session configured to commit made durable rows written only
\* through sessions configured not to commit
C6_Witness ==
    /\ last.op = "exit"
    /\ last.committed
    /\ last.pending # {}
    /\ \A s \in last.pending : ~sessions[s].to_commit
    /\ durable # {}

\* C7: no call on a session not configured to commit invokes commit on the
\* connection or changes the durable contents, and its commit() raises the
\* commit-state error, leaving the pending transaction as it was.
C7_NoCommitSessionNeverCommits ==
    [][(last'.sid \in 1..Len(sessions) /\ ~sessions[last'.sid].to_commit) =>
          /\ ~last'.committed
          /\ durable' = durable
          /\ last'.op = "commit" =>
                /\ last'.err = "LittlePGerError:commit"
                /\ UNCHANGED <<db, failed, dirty>>]_vars

C7_Witness ==
    /\ last.op = "commit"
    /\ last.err = "LittlePGerError:commit"
    /\ ~sessions[last.sid].to_commit
    /\ db # durable
    /\ last.sid \in dirty

--------------------------------------------------------------------------
\* Properties of upsert

Native(call) ==
    /\ call.op = "upsert"
    /\ call.sid \in 1..Len(sessions)
    /\ sessions[call.sid].upsert_impl = "_real_upsert"

\* a native upsert of a value map of the table's columns that holds a primary
\* key value, with no option but filter_values
PkeyUpsert(call) ==
    /\ Native(call)
    /\ DOMAIN call.kw \subseteq {"values", "filter_values"}
    /\ "values" \in DOMAIN call.kw
    /\ HasKey(call.kw.values, "id")
    /\ Lookup(call.kw.values, "id") \in Ids
    /\ \A k \in 1..Len(call.kw.values) : Known(call.kw.values[k][1])

\* C8 as claimed: a native upsert of a value map that contains the primary
\* key changes only the row with that key, returns it with the supplied values
\* and keeps the row count when the row exists, and creates exactly one row,
\* leaving the others as they were, when it does not.
C8_UpsertByPkey ==
    [][(PkeyUpsert(last') /\ ~failed) =>
          LET v == last'.kw.values
              old == {r \in db : r.id = Lookup(v, "id")}
              new == {r \in db' : r.id = Lookup(v, "id")}
          IN  /\ last'.err = ""
              /\ old # {} =>
                    /\ Cardinality(db') = Cardinality(db)
                    /\ db' \ new = db \ old
                    /\ last'.ret = Ret("row", ById(new), Null)
                    /\ HasKey(v, "name") => \A r \in new : r.name = Lookup(v, "name")
              /\ old = {} =>
                    /\ Cardinality(db') = Cardinality(db) + 1
                    /\ db \subseteq db'
                    /\ new # {}]_vars

\* the tokens of q after the first `from` and before the next `to`
Between(q, from, to) ==
    LET a == CHOOSE i \in 1..Len(q) : q[i] = from /\ \A j \in 1..(i - 1) : q[j] # from
        b == CHOOSE i \in (a + 1)..Len(q) : q[i] = to /\ \A j \in (a + 1)..(i - 1) : q[j] # to
    IN  SubSeq(q, a + 1, b - 1)

\* the columns of the value map a native upsert works on
UpsertColumns(kw) ==
    Keys(IF Get(kw, "filter_values", FALSE) THEN Filtered(kw.values, Columns)
         ELSE kw.values)

\* C9 as claimed: the `do update set` list of the native upsert statement has
\* one `<col> = excluded.<col>` item for every column of the value map but the
\* primary key, and a primary key present with an empty value is in neither
\* the column list nor the parameters, with or without filter_values.
C9_UpdateListWithoutPkey ==
    (Native(last) /\ "on conflict" \in Range(last.q)) =>
        LET cols == SelectSeq(UpsertColumns(last.kw), LAMBDA c : c # "id")
            v == last.kw.values
        IN  /\ Between(last.q, "do update set", "returning")
                 = Join([i \in 1..Len(cols) |-> <<cols[i], "=", "excluded.", cols[i]>>], ",")
            /\ (HasKey(v, "id") /\ ~Truthy(Lookup(v, "id"))) =>
                  /\ "id" \notin Range(Between(last.q, "(", ")"))
                  /\ Len(last.params) = Len(cols)

--------------------------------------------------------------------------
\* Properties of the server version

AtLeast95(b) == b[1] > 9 \/ (b[1] = 9 /\ b[2] >= 5)

\* C10 as claimed: on a server of version 9.5 or later, banners of two numeric
\* components included, constructing a session succeeds and selects the native
\* upsert; on an earlier server it selects the fallback.
C10_VersionSelectsUpsert ==
    /\ (last.op \in {"construct", "enter"} /\ AtLeast95(banner)) => last.err = ""
    /\ \A s \in 1..Len(sessions) :
          sessions[s].upsert_impl =
              IF AtLeast95(banner) THEN "_real_upsert" ELSE "_fake_upsert"

--------------------------------------------------------------------------
\* Properties of the fallback upsert

\* an upsert on the fallback path of a non-empty value map of the table's columns
FallbackUpsert(call) ==
    /\ call.op = "upsert"
    /\ call.sid \in 1..Len(sessions)
    /\ sessions[call.sid].upsert_impl = "_fake_upsert"
    /\ DOMAIN call.kw = {"values"}
    /\ call.kw.values # <<>>
    /\ \A k \in 1..Len(call.kw.values) : Known(call.kw.values[k][1])

\* C11 as claimed: on the fallback path, an upsert whose value map holds the
\* primary key of an existing row updates that row by primary key and returns
\* it; one whose value map has no primary key, or the key of no row, hands a
\* plain insert to the cursor and returns the row the server inserted.
C11_FallbackUpdatesOrInserts ==
    [][(FallbackUpsert(last') /\ ~failed) =>
          LET v == last'.kw.values
              old == IF HasKey(v, "id") THEN {r \in db : r.id = Lookup(v, "id")} ELSE {}
              new == {Row(r.id, IF HasKey(v, "name") THEN Lookup(v, "name") ELSE r.name)
                      : r \in old}
          IN  IF old # {}
              THEN /\ last'.err = ""
                   /\ "update" \in Range(last'.q)
                   /\ db' = (db \ old) \cup new
                   /\ last'.ret = Ret("row", ById(new), Null)
              ELSE /\ "insert" \in Range(last'.q)
                   /\ last'.err = "" =>
                         /\ last'.ret.kind = "row"
                         /\ db' = db \cup Range(last'.ret.rows)
                         /\ Cardinality(db') = Cardinality(db) + 1]_vars

--------------------------------------------------------------------------
\* Properties of tighten_sequence

\* a delete by primary key with tighten_sequence that ran
TightenDelete(call) ==
    /\ call.op = "delete"
    /\ DOMAIN call.kw = {"where", "tighten_sequence"}
    /\ call.kw.tighten_sequence
    /\ call.err = ""

DefaultInsert(call) == call.op = "insert" /\ call.kw = NoKw

\* the primary key the sequence is reset to: max(id) + 1, or 1 on an empty table
MaxPlusOne(rows) ==
    IF rows = {} THEN 1 ELSE (CHOOSE r \in rows : \A x \in rows : x.id <= r.id).id + 1

--------------------------------------------------------------------------
\* Properties of insert

\* an insert with no values and only options of insert's allow-list
EmptyInsert(call) ==
    /\ call.op = "insert"
    /\ Get(call.kw, "values", <<>>) = <<>>
    /\ DOMAIN call.kw \subseteq {"values", "filter_values", "map_values", "return_id"}

\* C13 as claimed: insert with no values and any of filter_values, map_values
\* and return_id executes `insert into t default values returning *` and
\* returns the inserted row, or its primary key under return_id, with no error.
C13_EmptyInsertDefaults ==
    [][(EmptyInsert(last') /\ ~failed /\ \A r \in db : r.id # seq) =>
          /\ last'.err = ""
          /\ last'.q = <<"set transform_null_equals to on;">> \o DefaultValues
          /\ db' = db \cup {Row(seq, Null)}
          /\ last'.ret = IF Get(last'.kw, "return_id", FALSE)
                         THEN Ret("value", <<>>, seq)
                         ELSE Ret("row", <<Row(seq, Null)>>, Null)]_vars

--------------------------------------------------------------------------
\* Properties of update's parameters

\* an update of scalar values whose filters do not use the exists key, that
\* built its statement
PlainUpdate(call) ==
    /\ call.op = "update"
    /\ call.q # <<>>
    /\ Get(call.kw, "values", <<>>) # <<>>
    /\ ExistsEntries(call.kw) = <<>>

\* C14: the parameters update hands to the cursor are the values in column
\* order, then the AND-clause parameters, then the OR-clause parameters, and
\* the placeholders of the statement come in that order: those of the set
\* list, one per column, then those of where, then those of where_or.
C14_UpdateParamsInOrder ==
    PlainUpdate(last) =>
        LET v == last.kw.values
            b == Bindings(last.kw)
            ph == Positions(last.q)
            cols == SelectSeq(Between(last.q, "(", ")"), LAMBDA c : c # ",")
            marks == Between(last.q, "=", ")")
        IN  /\ Len(last.params) = Len(v) + Len(b)
            /\ Len(ph) = Len(last.params)
            /\ cols = Keys(v)
            /\ marks = <<"(">> \o Marks(Len(v))
            /\ \A k \in 1..Len(v) :
                  /\ last.params[k] = Sc(v[k][2])
                  /\ last.q[ph[k]] = "%s"
                  /\ \A j \in 1..ph[k] : last.q[j] # "where"
            /\ \A k \in 1..Len(b) :
                  /\ last.params[Len(v) + k] = b[k][2]
                  /\ PlaceholderCol(last.q, ph[Len(v) + k]) = b[k][1].col
                  /\ \E j \in 1..ph[Len(v) + k] : last.q[j] = "where"

C14_Witness ==
    /\ PlainUpdate(last)
    /\ last.err = ""
    /\ Len(last.kw.values) = 2
    /\ "where" \in DOMAIN last.kw
    /\ "where_or" \in DOMAIN last.kw
    /\ Len(last.params) >= 5

--------------------------------------------------------------------------
\* Properties of _table_infos

\* a verb other than delete (whose tighten_sequence looks the sequence up)
\* called on a session that has the table's infos stored
CachedCall(call) ==
    /\ call.op \in Verbs \ {"delete"}
    /\ call.sid \in 1..Len(sessions)
    /\ "t" \in DOMAIN sessions[call.sid].infos

\* C15 as claimed: once a session has stored the table's infos, no later call
\* executes a metadata query on the cursor, and the stored value stays.
C15_InfosResolvedOnce ==
    [][CachedCall(last') =>
          /\ last'.nmeta = 0
          /\ sessions'[last'.sid].infos = sessions[last'.sid].infos]_vars

--------------------------------------------------------------------------
\* Properties of limit and offset

\* a select of all rows with limit or offset and no other option, that ran
PagedSelect(call) ==
    /\ call.op = "select"
    /\ DOMAIN call.kw \in {{"limit"}, {"offset"}}
    /\ call.err = ""

\* C16 as claimed: select with limit=n returns at most n rows, and select with
\* offset=k has an offset clause for k in its statement, for every n and k
\* from 0 up.
C16_LimitAndOffsetApplied ==
    PagedSelect(last) =>
        /\ "limit" \in DOMAIN last.kw => Len(last.ret.rows) <= last.kw.limit
        /\ "offset" \in DOMAIN last.kw =>
              Occurs(last.q, <<"offset", ToString(last.kw.offset)>>)

====
